---- MODULE Spec2Model ----
(***************************************************************************)
(* A model of zealot's watcher.py: the notification pipeline of main()     *)
(* (search per query, per-issue filters, the budgeted linked-PR lookup,    *)
(* de-duplication, grouping, report and delivery).                         *)
(*                                                                         *)
(* JSON values are modelled by what the code reads of them.  Python's None *)
(* (and a missing key read with .get) is the string None below; strings    *)
(* are TLA+ strings; lists are sequences.  An optional list (assignees) is *)
(* a sequence of length <= 1 holding the list, <<>> standing for None.     *)
(* Instants are integers counted in ticks of 1/TicksPerSec second, so that *)
(* datetime.now() may carry a sub-second fraction.                         *)
(***************************************************************************)
EXTENDS Integers, Sequences, FiniteSets, TLC

\* ------------------------------------------------------------------ bounds
\* Longest query list (ALL_QUERIES) considered.
MaxQueries == 2
\* Largest MAX_RESULTS considered.
MaxResultsBound == 2
\* Largest PAGINATE_PAGES considered.
MaxSearchPages == 2
\* Largest number of items a search page response carries.
MaxChunk == 2
\* Largest number of search results one run may hold:
\* Len(ALL_QUERIES) * MAX_RESULTS.
MaxRunItems == 2
\* Largest MAX_TIMELINE_CHECKS considered.
MaxChecksBound == 2
\* Largest TIMELINE_MAX_PAGES considered.
MaxTimelinePages == 2
\* Largest number of events a timeline page response carries.
MaxEvents == 2
\* The provider page cap of gh_search (min(MAX_RESULTS, 100), line 79) and
\* the page size of the timeline scan (per_page = 100, line 102), scaled
\* down so that full and short pages both occur within the bounds above.
SEARCH_PAGE_CAP == 1
TIMELINE_PER_PAGE == 2
\* Sub-second resolution of datetime.now(): ticks per second.
TicksPerSec == 2

None == "None"

Min(a, b) == IF a < b THEN a ELSE b

\* Python truthiness of an optional string: None and "" are falsy.
Truthy(s) == s # None /\ s # ""

\* (x or "") for an optional string x.
OrEmpty(s) == IF Truthy(s) THEN s ELSE ""

\* str.lower() on the strings the model uses.
Lower(s) ==
    CASE s = "OPEN" -> "open"
      [] s = "Open" -> "open"
      [] s = "CLOSED" -> "closed"
      [] OTHER -> s

\* ------------------------------------------------------------------ time
\* The timestamps "%Y-%m-%dT%H:%M:%SZ" of the first seconds of the epoch.
IsoStrings ==
    << "1970-01-01T00:00:00Z", "1970-01-01T00:00:01Z", "1970-01-01T00:00:02Z",
       "1970-01-01T00:00:03Z" >>

\* iso_utc(dt): strftime drops the sub-second part of dt.
iso_utc(dt) == IsoStrings[(dt \div TicksPerSec) + 1]

\* datetime.strptime(s, "%Y-%m-%dT%H:%M:%SZ"): the instant parsed, in ticks,
\* or -1 when strptime raises ValueError.
strptime(s) ==
    IF \E i \in 1..Len(IsoStrings) : IsoStrings[i] = s
    THEN (CHOOSE i \in 1..Len(IsoStrings) : IsoStrings[i] = s) * TicksPerSec
         - TicksPerSec
    ELSE -1

\* The values of `since` (= now - INTERVAL_MIN minutes) considered, in ticks:
\* a whole second, and the same second plus one tick.
SinceTicks == {TicksPerSec, TicksPerSec + 1}

\* ------------------------------------------------------------------ issues
RepoUrl1 == "https://api.github.com/repos/org/x"
RepoUrl2 == "https://api.github.com/repos/org/y"

\* "/".join(repository_url.split("/")[-2:])
RepoFullName(repository_url) ==
    CASE repository_url = RepoUrl1 -> "org/x"
      [] repository_url = RepoUrl2 -> "org/y"

Repos == {"org/x", "org/y"}

MkIssue(url, repo_url, state, assignees, upd) ==
    [html_url |-> url, repository_url |-> repo_url, state |-> state,
     assignees |-> assignees, updated_at |-> upd]

\* An open, unassigned, freshly updated issue.
BaseIssue(url, repo_url) ==
    MkIssue(url, repo_url, "open", << <<>> >>, IsoStrings[3])

\* The search items considered: qualifying issues in two repositories, a
\* second qualifying issue of the first repository (its assignees null and
\* its timestamp missing), and the first issue with one field changed at a
\* time (same URL).
Issues ==
    { BaseIssue("https://github.com/org/x/issues/5", RepoUrl1),
      BaseIssue("https://github.com/org/y/issues/7", RepoUrl2),
      MkIssue("https://github.com/org/x/issues/6", RepoUrl1, "open", <<>>, None),
      MkIssue("https://github.com/org/x/issues/5", RepoUrl1, "OPEN", << <<>> >>, "yesterday"),
      MkIssue("https://github.com/org/x/issues/5", RepoUrl1, "closed", << <<>> >>, IsoStrings[3]),
      MkIssue("https://github.com/org/x/issues/5", RepoUrl1, "open", << <<"alice">> >>, IsoStrings[3]),
      MkIssue("https://github.com/org/x/issues/5", RepoUrl1, "open", << <<>> >>, IsoStrings[1]),
      MkIssue("https://github.com/org/x/issues/5", RepoUrl1, "open", << <<>> >>, IsoStrings[2]),
      MkIssue(None, RepoUrl1, "open", << <<>> >>, IsoStrings[3]) }

\* (it.get("assignees") or []): the list, [] for None.
AssigneesOf(it) == IF it.assignees = <<>> THEN <<>> ELSE it.assignees[1]

\* Lines 285-291: the issue is older than the window (parsed and < since).
\* A falsy or unparsable updated_at never discards.
OlderThanWindow(it, sinceT) ==
    /\ Truthy(it.updated_at)
    /\ strptime(it.updated_at) # -1
    /\ strptime(it.updated_at) < sinceT

\* OpenUnassigned without the assignee test of lines 296-298.
OpenUnassigned_NoAssigneeTest(it) == Lower(OrEmpty(it.state)) = "open"

\* Lines 293-298: state is open (case-insensitively) and nobody is assigned.
OpenUnassigned(it) ==
    /\ Lower(OrEmpty(it.state)) = "open"
    /\ AssigneesOf(it) = <<>>

\* ------------------------------------------------------------------ queries
\* q[:40] on the query expressions the model uses.
Prefix40(q) ==
    CASE q = "repo:org/x is:issue is:open (label:bug OR label:help)"
           -> "repo:org/x is:issue is:open (label:bug O"
      [] q = "repo:org/x is:issue is:open (label:bug OR label:docs)"
           -> "repo:org/x is:issue is:open (label:bug O"
      [] OTHER -> q

\* Line 274: qname = q.get("name") or q.get("q")[:40]
QName(q) == IF Truthy(q.name) THEN q.name ELSE Prefix40(q.q)

\* The queries considered: a named one, and two unnamed ones whose
\* expressions share their first 40 characters.
QuerySet ==
    { [name |-> "A", q |-> "repo:org/y is:issue"],
      [name |-> None, q |-> "repo:org/x is:issue is:open (label:bug OR label:help)"],
      [name |-> None, q |-> "repo:org/x is:issue is:open (label:bug OR label:docs)"] }

QNames == { QName(q) : q \in QuerySet }

SeqsUpTo(S, n) == UNION { [1..k -> S] : k \in 0..n }

\* ALL_QUERIES is not empty (lines 66-68 exit otherwise).
QueryLists == SeqsUpTo(QuerySet, MaxQueries) \ { <<>> }

\* ------------------------------------------------------------------ search responses
\* What one GET of the search endpoint yields: a transport error (requests
\* raises), a status >= 400 (raise_for_status raises), a body that is not a
\* JSON object (r.json() or .get raises), or a JSON object with its items.
SearchFailures ==
    { [kind |-> k, items |-> <<>>] : k \in {"transport_error", "http_error", "bad_body"} }

SearchResponses ==
    SearchFailures \cup { [kind |-> "ok", items |-> c] : c \in SeqsUpTo(Issues, MaxChunk) }

\* ------------------------------------------------------------------ timeline responses
\* An element of a timeline page as the scan reads it: whether it is a JSON
\* object at all, ev.get("event"), whether source.issue has the key
\* pull_request, and source.issue.state.
MkEvent(obj, event, pr, state) ==
    [is_object |-> obj, event |-> event, pull_request |-> pr, state |-> state]

TimelineElems ==
    { MkEvent(TRUE, "labeled", FALSE, None),
      MkEvent(TRUE, "cross-referenced", FALSE, "open"),
      MkEvent(TRUE, "cross-referenced", TRUE, "closed"),
      MkEvent(TRUE, "cross-referenced", TRUE, "open"),
      MkEvent(FALSE, None, FALSE, None) }

\* IsOpenLinkedPR without the test of line 119 that the source is a pull
\* request.
IsOpenLinkedPR_AnySource(ev) ==
    /\ ev.event = "cross-referenced"
    /\ Lower(OrEmpty(ev.state)) = "open"

\* Lines 115-121 for one event object: an open pull request references the issue.
IsOpenLinkedPR(ev) ==
    /\ ev.event = "cross-referenced"
    /\ ev.pull_request
    /\ Lower(OrEmpty(ev.state)) = "open"

\* What one GET of the timeline endpoint yields.  A JSON body is a list of
\* elements, an object (iterating it yields its keys, which are not
\* objects) or null.
TimelineResponses ==
    { [kind |-> k, shape |-> None, elems |-> <<>>] :
          k \in {"transport_error", "http_error", "bad_json"} }
    \cup { [kind |-> "json", shape |-> "null", elems |-> <<>>] }
    \cup { [kind |-> "json", shape |-> "list", elems |-> e] :
               e \in SeqsUpTo(TimelineElems, MaxEvents) }
    \cup { [kind |-> "json", shape |-> "object", elems |-> e] :
               e \in SeqsUpTo({MkEvent(FALSE, None, FALSE, None)}, MaxEvents) }

\* Lines 114-121: the for loop over data from element i on.  "true" when an
\* open linked pull request is found, "raise" when an element is not an
\* object (ev.get raises AttributeError outside the try), "end" otherwise.
RECURSIVE ScanEvents(_, _)
ScanEvents(elems, i) ==
    IF i > Len(elems) THEN "end"
    ELSE IF ~elems[i].is_object THEN "raise"
    ELSE IF IsOpenLinkedPR(elems[i]) THEN "true"
    ELSE ScanEvents(elems, i + 1)

\* TimelineStep failing closed: a transport error reports a linked PR.
TimelineStep_FailClosed(resp) ==
    IF resp.kind = "transport_error" THEN "true"
    ELSE IF resp.kind # "json" THEN "false"
    ELSE IF resp.shape = "null" THEN "raise"
    ELSE LET r == ScanEvents(resp.elems, 1) IN
         IF r # "end" THEN r
         ELSE IF Len(resp.elems) < TIMELINE_PER_PAGE THEN "false"
         ELSE "next"

\* Lines 106-125: one iteration of the while loop of issue_has_open_linked_pr
\* on the response resp: "false" (return False), "true" (return True),
\* "raise" (an exception leaves the function) or "next" (page += 1).
TimelineStep(resp) ==
    IF resp.kind # "json" THEN "false"
    ELSE IF resp.shape = "null" THEN "raise"
    ELSE LET r == ScanEvents(resp.elems, 1) IN
         IF r # "end" THEN r
         ELSE IF Len(resp.elems) < TIMELINE_PER_PAGE THEN "false"
         ELSE "next"

\* History of a lookup: the response is a page as the timeline endpoint
\* documents it, a JSON list of event objects.
WellFormedPage(resp) ==
    /\ resp.kind = "json"
    /\ resp.shape = "list"
    /\ \A i \in 1..Len(resp.elems) : resp.elems[i].is_object

\* History of a lookup: the response holds an event of kind cross-referenced
\* whose source is a pull request in state open.
HoldsOpenPullRequest(resp) ==
    \E i \in 1..Len(resp.elems) :
        /\ resp.elems[i].is_object
        /\ resp.elems[i].event = "cross-referenced"
        /\ resp.elems[i].pull_request
        /\ resp.elems[i].state = "open"

\* ------------------------------------------------------------------ state
VARIABLES
    \* what the import of the module reads: the process environment
    \* (os.getenv) and the files config.json and targets.json
    environ, config_json, targets_json,
    \* configuration, fixed at start-up (module level, lines 32-68, 80)
    INTERVAL_MIN, ALL_QUERIES, MAX_RESULTS, PAGINATE_PAGES, FILTER_LINKED_PR,
    MAX_TIMELINE_CHECKS, TIMELINE_MAX_PAGES,
    \* main(): the run window
    since,
    \* where the process is.  During the import of the module: "env",
    \* "config", "queries", or "exit" (sys.exit(1)).  In main(): "search",
    \* "items", "timeline", "report", "email", "tg", "done" or "crashed" (an
    \* exception left main())
    pc,
    \* what raised when pc = "crashed": "timeline", "email" or "tg"
    crash,
    \* main(): index into ALL_QUERIES of the query of the current iteration
    qi,
    \* gh_search(): page, items
    page, items,
    \* main(): position of `it` in items, and the per-query locals
    ii, seen_urls_in_this_query, kept,
    \* main(): the run's accumulators
    grouped_by_query_repo, per_query_counts, timeline_checks,
    \* issue_has_open_linked_pr(): page
    tl_page,
    \* main(): total, the outputs written, and the delivery results
    total, files_written, status_signal, mail_ok, tg_ok,
    \* history: the requests gh_search made in its current call, each with
    \* the number of items held before it and the number it returned
    requests,
    \* history: the concatenation of the pages gh_search fetched in its call
    fetched,
    \* history: calls of issue_has_open_linked_pr so far
    filter_calls,
    \* history: timeline requests made by the current filter call
    tl_requests,
    \* history of the current filter call: a page it fetched held a
    \* cross-referenced event whose source is an open pull request; a
    \* response it got was not a well-formed page; a page it fetched was
    \* shorter than the page size; what the call ended with ("true", "false"
    \* or "raise", None while it runs)
    tl_found, tl_malformed, tl_short, tl_result,
    \* history: the issues appended by the query of the current iteration
    kept_list,
    \* history: how the item loop of the current iteration left each item it
    \* has processed: "skipped" (lines 285-298), "linked" (line 305),
    \* "no_new_url" (line 311) or "kept" (line 316)
    outcomes,
    \* environment: TRUE when every request to the timeline endpoint of this
    \* run fails at the transport level
    timeline_down,
    \* the accumulators of the same run with FILTER_LINKED_PR off, followed
    \* while timeline_down
    ref_grouped, ref_seen

inputs == << environ, config_json, targets_json >>
resolved == << INTERVAL_MIN, ALL_QUERIES, MAX_RESULTS >>
knobs == << PAGINATE_PAGES, FILTER_LINKED_PR, MAX_TIMELINE_CHECKS,
           TIMELINE_MAX_PAGES, since, timeline_down >>
config == << inputs, resolved, knobs >>
search_vars == << page, items, requests, fetched >>
query_vars == << ii, seen_urls_in_this_query, kept, kept_list, outcomes >>
run_vars == << grouped_by_query_repo, per_query_counts, timeline_checks >>
lookup_hist == << tl_found, tl_malformed, tl_short, tl_result >>
filter_vars == << tl_page, filter_calls, tl_requests, lookup_hist >>
out_vars == << total, files_written, status_signal, mail_ok, tg_ok >>
ref_vars == << ref_grouped, ref_seen >>
vars == << config, pc, crash, qi, search_vars, query_vars, run_vars,
           filter_vars, out_vars, ref_vars >>

\* defaultdict(lambda: defaultdict(list)) before any append: a name or
\* repository that was never appended to holds no issue.
EmptyGrouped == [n \in QNames |-> [r \in Repos |-> <<>>]]

NoSignal == [HAS_RESULTS |-> None, TOTAL |-> -1]

\* main() does not look at the environment or at the two documents again:
\* what the import made of them is in INTERVAL_MIN, MAX_RESULTS and
\* ALL_QUERIES, and a run of main() starts with them left out.
Consumed == "consumed"

\* The configurations considered.  A run holds at most MaxRunItems search
\* results; the page ceilings of the two paging loops are varied over runs
\* of a single query with the filter on, and are at their largest elsewhere.
InitConfig ==
    /\ environ = Consumed
    /\ config_json = Consumed
    /\ targets_json = Consumed
    /\ INTERVAL_MIN = 30
    /\ ALL_QUERIES \in QueryLists
    /\ MAX_RESULTS \in 0..MaxResultsBound
    /\ Len(ALL_QUERIES) * MAX_RESULTS <= MaxRunItems
    /\ PAGINATE_PAGES \in 0..MaxSearchPages
    /\ TIMELINE_MAX_PAGES \in 0..MaxTimelinePages
    /\ FILTER_LINKED_PR \in {"1", "0"}
    /\ MAX_TIMELINE_CHECKS \in 0..MaxChecksBound
    /\ since \in SinceTicks
    /\ timeline_down \in BOOLEAN
    /\ FILTER_LINKED_PR = "0" => MAX_TIMELINE_CHECKS = MaxChecksBound
    /\ timeline_down => FILTER_LINKED_PR = "1" /\ MAX_TIMELINE_CHECKS > 0
    /\ (PAGINATE_PAGES # MaxSearchPages \/ TIMELINE_MAX_PAGES # MaxTimelinePages)
         => /\ Len(ALL_QUERIES) = 1
            /\ FILTER_LINKED_PR = "1"
            /\ MAX_TIMELINE_CHECKS = MaxChecksBound
            /\ ~timeline_down

\* Lines 267-271 and the histories: nothing fetched, kept or written yet.
InitMain ==
    /\ crash = None
    /\ qi = 1
    /\ page = 1
    /\ items = <<>>
    /\ requests = <<>>
    /\ fetched = <<>>
    /\ ii = 1
    /\ seen_urls_in_this_query = {}
    /\ kept = 0
    /\ kept_list = <<>>
    /\ outcomes = <<>>
    /\ grouped_by_query_repo = EmptyGrouped
    /\ per_query_counts = << >>
    /\ timeline_checks = 0
    /\ tl_page = 1
    /\ filter_calls = 0
    /\ tl_requests = 0
    /\ tl_found = FALSE
    /\ tl_malformed = FALSE
    /\ tl_short = FALSE
    /\ tl_result = None
    /\ total = 0
    /\ files_written = {}
    /\ status_signal = NoSignal
    /\ mail_ok = None
    /\ tg_ok = None
    /\ ref_grouped = EmptyGrouped
    /\ ref_seen = {}

\* main() is entered (line 342) after an import that did not exit.
Init ==
    /\ InitConfig
    /\ pc = "search"
    /\ InitMain

\* ------------------------------------------------------------------ gh_search
\* Line 79: per_page = min(MAX_RESULTS, 100)
PerPage(max_results) == Min(max_results, SEARCH_PAGE_CAP)

\* items[:n]
Take(s, n) == SubSeq(s, 1, Min(Len(s), n))

\* SearchLoopCond without the result cap.
SearchLoopCond_NoCap(pg, its, max_pages, max_results) == pg <= max_pages

\* Line 83: the while condition of gh_search.
SearchLoopCond(pg, its, max_pages, max_results) ==
    pg <= max_pages /\ Len(its) < max_results

\* Line 94 and lines 281-282: gh_search returns its[:MAX_RESULTS] and main()
\* starts the item loop of this query.
SearchReturns(its) ==
    /\ items' = Take(its, MAX_RESULTS)
    /\ pc' = "items"
    /\ ii' = 1
    /\ seen_urls_in_this_query' = {}
    /\ kept' = 0
    /\ kept_list' = <<>>
    /\ outcomes' = <<>>
    /\ ref_seen' = {}
    /\ UNCHANGED << qi, ref_grouped >>

\* The history of the gh_search call is dropped once main() uses its result.
ForgetSearch ==
    /\ requests' = <<>>
    /\ fetched' = <<>>
    /\ UNCHANGED << page, items >>

\* The locals and the history of a lookup call are dropped once main() has
\* moved on from the issue it was made for.
ForgetLookup ==
    /\ tl_page' = 1
    /\ tl_requests' = 0
    /\ tl_found' = FALSE
    /\ tl_malformed' = FALSE
    /\ tl_short' = FALSE
    /\ tl_result' = None
    /\ UNCHANGED filter_calls

\* Line 274 for the query of the current iteration.
CurQName == QName(ALL_QUERIES[qi])

\* dict assignment d[k] = v
DictSet(d, k, v) == [x \in DOMAIN d \cup {k} |-> IF x = k THEN v ELSE d[x]]

\* The for loop of line 273 moves on to the next query, or ends.
\* The locals of the iteration that ended are dead (gh_search and lines
\* 281-282 assign them anew before any read): they are reset here.
NextQuery ==
    /\ qi' = qi + 1
    /\ pc' = IF qi + 1 > Len(ALL_QUERIES) THEN "report" ELSE "search"
    /\ page' = 1
    /\ items' = <<>>
    /\ requests' = <<>>
    /\ fetched' = <<>>
    /\ ii' = 1
    /\ seen_urls_in_this_query' = {}
    /\ kept' = 0
    /\ kept_list' = <<>>
    /\ outcomes' = <<>>
    /\ ref_seen' = {}
    /\ UNCHANGED ref_grouped

\* SearchFails with a handler that also records a count of 0 for the query.
SearchFails_RecordsZero ==
    /\ pc = "search"
    /\ SearchLoopCond(page, items, PAGINATE_PAGES, MAX_RESULTS)
    /\ \E resp \in SearchFailures : TRUE
    /\ per_query_counts' = DictSet(per_query_counts, CurQName, 0)
    /\ NextQuery
    /\ UNCHANGED << config, crash, grouped_by_query_repo, timeline_checks,
                    filter_vars, out_vars >>

\* Lines 84-86 raise (transport error, status >= 400, unusable body): the
\* exception leaves gh_search and is caught at lines 277-279, which log and
\* continue with the next query.
SearchFails ==
    /\ pc = "search"
    /\ SearchLoopCond(page, items, PAGINATE_PAGES, MAX_RESULTS)
    /\ \E resp \in SearchFailures : TRUE
    /\ NextQuery
    /\ UNCHANGED << config, crash, run_vars, filter_vars, out_vars >>

\* Lines 84-93: one iteration of the while loop with a usable response.
SearchPage ==
    /\ pc = "search"
    /\ SearchLoopCond(page, items, PAGINATE_PAGES, MAX_RESULTS)
    /\ \E resp \in SearchResponses :
         /\ resp.kind = "ok"
         /\ requests' = Append(requests,
                [page |-> page, per_page |-> PerPage(MAX_RESULTS),
                 had |-> Len(items), got |-> Len(resp.items)])
         /\ fetched' = fetched \o resp.items
         /\ IF resp.items = <<>> \/ Len(resp.items) < PerPage(MAX_RESULTS)
            THEN \* break (line 89 or line 92), then return
                 /\ SearchReturns(items \o resp.items)
                 /\ page' = page
            ELSE /\ items' = items \o resp.items
                 /\ page' = page + 1
                 /\ UNCHANGED << pc, qi, query_vars, ref_vars >>
    /\ UNCHANGED << config, crash, run_vars, filter_vars, out_vars >>

\* Line 83 false: the loop ends and line 94 returns.
SearchExit ==
    /\ pc = "search"
    /\ ~SearchLoopCond(page, items, PAGINATE_PAGES, MAX_RESULTS)
    /\ SearchReturns(items)
    /\ UNCHANGED << config, crash, page, requests, fetched, run_vars,
                    filter_vars, out_vars >>

\* ------------------------------------------------------------------ main: the item loop
CurItem == items[ii]

\* PassesBasicFilters without the time-window step of lines 285-291.
PassesBasicFilters_NoWindowStep(it, sinceT) == OpenUnassigned(it)

\* Lines 285-298: the issue passes the time-window, state and assignee steps.
PassesBasicFilters(it, sinceT) ==
    ~OlderThanWindow(it, sinceT) /\ OpenUnassigned(it)

\* BudgetRemains with the comparison off by one.
BudgetRemains_OffByOne(checks, max_checks) == checks <= max_checks

\* Line 299: the linked-PR lookup is made for this issue.
BudgetRemains(checks, max_checks) == checks < max_checks

FilterInvoked(flag, checks, max_checks) ==
    flag = "1" /\ BudgetRemains(checks, max_checks)

\* Lines 302-307: timeline_checks after a call that returned True (line 304,
\* then the finally clause of line 307), returned False or raised (line 307).
ChecksAfter(checks, outcome) ==
    IF outcome = "true" THEN checks + 2 ELSE checks + 1

\* DedupKeep without the membership test of line 310.
DedupKeep_NoSeenTest(g, seen, k, lst, qname, it) ==
    IF ~Truthy(it.html_url)
    THEN [grouped |-> g, seen |-> seen, kept |-> k, list |-> lst]
    ELSE [grouped |-> [g EXCEPT ![qname][RepoFullName(it.repository_url)] =
                                    Append(@, it)],
          seen |-> seen \cup {it.html_url},
          kept |-> k + 1,
          list |-> Append(lst, it)]

\* DedupKeep putting the issue in front of the list (insert(0, it) for
\* the append of line 315).
DedupKeep_Prepends(g, seen, k, lst, qname, it) ==
    IF ~Truthy(it.html_url) \/ it.html_url \in seen
    THEN [grouped |-> g, seen |-> seen, kept |-> k, list |-> lst]
    ELSE [grouped |-> [g EXCEPT ![qname][RepoFullName(it.repository_url)] =
                                    <<it>> \o @],
          seen |-> seen \cup {it.html_url},
          kept |-> k + 1,
          list |-> <<it>> \o lst]

\* Lines 309-316 on the accumulators (g, seen, k, lst) for the issue it of
\* the query named qname: continue when the URL is falsy or already seen,
\* else record the URL, append the issue and count it.
DedupKeep(g, seen, k, lst, qname, it) ==
    IF ~Truthy(it.html_url) \/ it.html_url \in seen
    THEN [grouped |-> g, seen |-> seen, kept |-> k, list |-> lst]
    ELSE [grouped |-> [g EXCEPT ![qname][RepoFullName(it.repository_url)] =
                                    Append(@, it)],
          seen |-> seen \cup {it.html_url},
          kept |-> k + 1,
          list |-> Append(lst, it)]

\* Lines 309-316 applied to the run and to the reference run without the
\* linked-PR filter, for an issue that was not discarded by lines 285-307.
ReachesDedup(it) ==
    LET r == DedupKeep(grouped_by_query_repo, seen_urls_in_this_query, kept,
                       kept_list, CurQName, it)
    IN /\ grouped_by_query_repo' = r.grouped
       /\ seen_urls_in_this_query' = r.seen
       /\ kept' = r.kept
       /\ kept_list' = r.list
       /\ outcomes' = Append(outcomes, IF r.kept > kept THEN "kept"
                                       ELSE "no_new_url")
       /\ ii' = ii + 1
       /\ pc' = "items"

\* The reference run, in which line 299 is false for every issue, applies
\* lines 309-316 to each issue that lines 285-298 let through.
RefReachesDedup(it) ==
    LET f == DedupKeep(ref_grouped, ref_seen, 0, <<>>, CurQName, it)
    IN IF timeline_down
       THEN ref_grouped' = f.grouped /\ ref_seen' = f.seen
       ELSE UNCHANGED ref_vars

\* Lines 285-298: `continue` for an issue outside the window, not open or
\* assigned.
ItemSkipped ==
    /\ pc = "items"
    /\ ii <= Len(items)
    /\ ~PassesBasicFilters(CurItem, since)
    /\ ii' = ii + 1
    /\ outcomes' = Append(outcomes, "skipped")
    /\ ForgetSearch
    /\ ForgetLookup
    /\ UNCHANGED << config, pc, crash, qi, seen_urls_in_this_query,
                    kept, kept_list, run_vars, out_vars, ref_vars >>

\* Line 299 false: no lookup; lines 309-316 follow.
ItemUnchecked ==
    /\ pc = "items"
    /\ ii <= Len(items)
    /\ PassesBasicFilters(CurItem, since)
    /\ ~FilterInvoked(FILTER_LINKED_PR, timeline_checks, MAX_TIMELINE_CHECKS)
    /\ ReachesDedup(CurItem)
    /\ RefReachesDedup(CurItem)
    /\ ForgetSearch
    /\ ForgetLookup
    /\ UNCHANGED << config, crash, qi, per_query_counts,
                    timeline_checks, out_vars >>

\* Lines 299-303: the lookup is called for this issue (lines 97-102).
FilterCall ==
    /\ pc = "items"
    /\ ii <= Len(items)
    /\ PassesBasicFilters(CurItem, since)
    /\ FilterInvoked(FILTER_LINKED_PR, timeline_checks, MAX_TIMELINE_CHECKS)
    /\ pc' = "timeline"
    /\ tl_page' = 1
    /\ tl_requests' = 0
    /\ tl_found' = FALSE
    /\ tl_malformed' = FALSE
    /\ tl_short' = FALSE
    /\ tl_result' = None
    /\ filter_calls' = filter_calls + 1
    /\ ForgetSearch
    /\ UNCHANGED << config, crash, qi, query_vars, run_vars, out_vars,
                    ref_vars >>

\* The call of issue_has_open_linked_pr ends with `outcome` ("true",
\* "false" or "raise") and lines 303-316 of main() follow.
FilterEnds(outcome) ==
    /\ timeline_checks' = ChecksAfter(timeline_checks, outcome)
    /\ tl_result' = outcome
    /\ RefReachesDedup(CurItem)
    /\ UNCHANGED << per_query_counts, tl_page, filter_calls >>
    /\ CASE outcome = "false" ->
              /\ ReachesDedup(CurItem)
              /\ UNCHANGED crash
         [] outcome = "true" ->
              \* line 305: continue
              /\ ii' = ii + 1
              /\ pc' = "items"
              /\ outcomes' = Append(outcomes, "linked")
              /\ UNCHANGED << crash, grouped_by_query_repo,
                              seen_urls_in_this_query, kept, kept_list >>
         [] outcome = "raise" ->
              \* nothing catches the exception: it leaves main()
              /\ pc' = "crashed"
              /\ crash' = "timeline"
              /\ UNCHANGED << ii, grouped_by_query_repo,
                              seen_urls_in_this_query, kept, kept_list,
                              outcomes >>

\* Lines 103-125: one iteration of the while loop of the lookup.
TimelinePage ==
    /\ pc = "timeline"
    /\ tl_page <= TIMELINE_MAX_PAGES
    /\ \E resp \in TimelineResponses :
         /\ timeline_down => resp.kind = "transport_error"
         /\ tl_requests' = tl_requests + 1
         /\ tl_found' = (tl_found \/ HoldsOpenPullRequest(resp))
         /\ tl_malformed' = (tl_malformed \/ ~WellFormedPage(resp))
         /\ tl_short' = (tl_short \/ Len(resp.elems) < TIMELINE_PER_PAGE)
         /\ IF TimelineStep(resp) = "next"
            THEN /\ tl_page' = tl_page + 1
                 /\ UNCHANGED << pc, crash, query_vars, run_vars, filter_calls,
                                 tl_result, ref_vars >>
            ELSE FilterEnds(TimelineStep(resp))
    /\ UNCHANGED << config, qi, search_vars, out_vars >>

\* Line 103 false: the loop ends and line 127 returns False.
TimelineExhausted ==
    /\ pc = "timeline"
    /\ tl_page > TIMELINE_MAX_PAGES
    /\ FilterEnds("false")
    /\ UNCHANGED << config, qi, search_vars, tl_requests, tl_found,
                    tl_malformed, tl_short, out_vars >>

\* Line 318 after the last item, then the next iteration of line 273.
QueryDone ==
    /\ pc = "items"
    /\ ii > Len(items)
    /\ per_query_counts' = DictSet(per_query_counts, CurQName, kept)
    /\ NextQuery
    /\ ForgetLookup
    /\ UNCHANGED << config, crash, grouped_by_query_repo, timeline_checks,
                    out_vars >>

\* ------------------------------------------------------------------ main: report and delivery
\* sum(d.values())
RECURSIVE SumValues(_)
SumValues(d) ==
    IF DOMAIN d = {} THEN 0
    ELSE LET k == CHOOSE x \in DOMAIN d : TRUE
         IN d[k] + SumValues([x \in DOMAIN d \ {k} |-> d[x]])

\* Lines 320-335: total, the two report files, the run-status signal when
\* GITHUB_OUTPUT is set, and the early return when nothing was kept.
Report ==
    /\ pc = "report"
    /\ total' = SumValues(per_query_counts)
    /\ files_written' = {"notify.html", "notify.txt"}
    /\ \E gh_out \in BOOLEAN :
         status_signal' =
            IF gh_out
            THEN [HAS_RESULTS |-> IF SumValues(per_query_counts) > 0
                                  THEN "true" ELSE "false",
                  TOTAL |-> SumValues(per_query_counts)]
            ELSE status_signal
    /\ pc' = IF SumValues(per_query_counts) = 0 THEN "done" ELSE "email"
    /\ UNCHANGED << config, crash, qi, search_vars, query_vars, run_vars,
                    filter_vars, mail_ok, tg_ok, ref_vars >>

\* The outcomes of send_email_html (lines 229-248): "unconfigured" (line
\* 231 returns False), "sent" (line 248 returns True) or a failure of the
\* SMTP session (connect, STARTTLS, login or sendmail raise; nothing in
\* send_email_html or main() catches it).
EmailOutcomes == {"unconfigured", "sent", "connect_error", "tls_error",
                  "login_error", "send_error"}

EmailRaises(outcome) == outcome \notin {"unconfigured", "sent"}

\* Line 338: mail_ok = send_email_html(...)
SendEmail ==
    /\ pc = "email"
    /\ \E outcome \in EmailOutcomes :
         IF EmailRaises(outcome)
         THEN /\ pc' = "crashed"
              /\ crash' = "email"
              /\ UNCHANGED mail_ok
         ELSE /\ pc' = "tg"
              /\ mail_ok' = IF outcome = "sent" THEN "True" ELSE "False"
              /\ UNCHANGED crash
    /\ UNCHANGED << config, qi, search_vars, query_vars, run_vars, filter_vars,
                    total, files_written, status_signal, tg_ok, ref_vars >>

\* The outcomes of send_tg (lines 250-261): "unconfigured" (line 252),
\* "transport_error" (requests.post raises at line 255, outside the try),
\* "http_error" (raise_for_status raises inside the try: False) or "sent".
TgOutcomes == {"unconfigured", "transport_error", "http_error", "sent"}

TgRaises(outcome) == outcome = "transport_error"

\* Line 339: tg_ok = send_tg(...), then line 340 and the end of main().
SendTg ==
    /\ pc = "tg"
    /\ \E outcome \in TgOutcomes :
         IF TgRaises(outcome)
         THEN /\ pc' = "crashed"
              /\ crash' = "tg"
              /\ UNCHANGED tg_ok
         ELSE /\ pc' = "done"
              /\ tg_ok' = IF outcome = "sent" THEN "True" ELSE "False"
              /\ UNCHANGED crash
    /\ UNCHANGED << config, qi, search_vars, query_vars, run_vars, filter_vars,
                    total, files_written, status_signal, mail_ok, ref_vars >>

\* ------------------------------------------------------------------ specification
Next ==
    \/ SearchFails
    \/ SearchPage
    \/ SearchExit
    \/ ItemSkipped
    \/ ItemUnchecked
    \/ FilterCall
    \/ TimelinePage
    \/ TimelineExhausted
    \/ QueryDone
    \/ Report
    \/ SendEmail
    \/ SendTg

Spec == Init /\ [][Next]_vars

\* ------------------------------------------------------------------ module import
\* Lines 14-68 run once, when the module is imported, before main().
\*
\* A JSON document on disk is <<>> when the file does not exist and <<obj>>
\* when it holds the object obj.  A numeric key of a document is <<>> when
\* the key is missing (cfg.get(key) is None) and <<n>> when it holds n; a
\* list key that is missing reads as [] (cfg.get(key, [])).
MkDocA(queries, interval_minutes, max_results) ==
    [queries |-> queries, interval_minutes |-> interval_minutes,
     max_results |-> max_results]

MkDocB(repos, labels, exclude_labels, interval_minutes, max_results) ==
    [repos |-> repos, labels |-> labels, exclude_labels |-> exclude_labels,
     interval_minutes |-> interval_minutes, max_results |-> max_results]

\* Line 43: the default of read_json("config.json", ...).
DefaultA == MkDocA(<<>>, <<30>>, <<100>>)

\* Line 44: the default of read_json("targets.json", ...).
DefaultB == MkDocB(<<>>, <<>>, <<>>, <<30>>, <<100>>)

\* Lines 37-41.
read_json(file, default) == IF file = <<>> THEN default ELSE file[1]

cfgA == read_json(config_json, DefaultA)
cfgB == read_json(targets_json, DefaultB)

\* Python truthiness of cfg.get(key) for a numeric key: None and 0 are falsy.
TruthyNum(v) == v # <<>> /\ v[1] # 0

\* int(s) on the override strings the model uses.
int(s) ==
    CASE s = "5" -> 5
      [] s = "7" -> 7

\* Lines 46-47: int(override or a or b or default), `or` yielding its first
\* truthy operand.
FirstTruthy(override, a, b, default) ==
    IF Truthy(override) THEN int(override)
    ELSE IF TruthyNum(a) THEN a[1]
    ELSE IF TruthyNum(b) THEN b[1]
    ELSE default

\* sep.join(ss) for a list of strings.
RECURSIVE Join(_, _)
Join(sep, ss) ==
    IF ss = <<>> THEN ""
    ELSE IF Len(ss) = 1 THEN ss[1]
    ELSE ss[1] \o sep \o Join(sep, Tail(ss))

\* The labels the model uses: (" " in lb) and lb.replace(" ", "_").
HasSpace(lb) == lb = "help wanted"

Underscored(lb) == IF lb = "help wanted" THEN "help_wanted" ELSE lb

\* [f(ss[i]) for i], for the list comprehensions of lines 55, 56 and 58.
LabelTerms(prefix, ss) ==
    [i \in 1..Len(ss) |->
        IF HasSpace(ss[i]) THEN prefix \o "\"" \o ss[i] \o "\""
        ELSE prefix \o ss[i]]

\* Lines 55-60 for the repository r: the name and the expression of its
\* query.  strip() removes the blank that ends the expression when there is
\* no excluded label.
SynthQuery(r, labels, exclude_labels) ==
    LET label_or == Join(" OR ", LabelTerms("label:", labels))
        excl == Join(" ", LabelTerms("-label:", exclude_labels))
        head == "repo:" \o r \o " is:issue is:open (" \o label_or \o ")"
    IN [name |-> r \o "-" \o Join("_", [i \in 1..Len(labels) |->
                                              Underscored(labels[i])]),
        q |-> IF excl = "" THEN head ELSE head \o " " \o excl]

\* build_queries_from_targets without the test of line 54.
build_queries_from_targets_NoEmptyTest(cfg) ==
    [i \in 1..Len(cfg.repos) |->
        SynthQuery(cfg.repos[i], cfg.labels, cfg.exclude_labels)]

\* Lines 49-61.
build_queries_from_targets(cfg) ==
    IF cfg.repos = <<>> \/ cfg.labels = <<>> THEN <<>>
    ELSE [i \in 1..Len(cfg.repos) |->
             SynthQuery(cfg.repos[i], cfg.labels, cfg.exclude_labels)]

queriesA == cfgA.queries
queriesB == build_queries_from_targets(cfgB)

\* The inputs of the import considered.
TokenValues == {None, "", "ghp_t"}
IntervalOverrides == {None, "", "5"}
ResultOverrides == {None, "", "7"}
ValuesA == {<<>>, <<0>>, <<10>>}
ValuesB == {<<>>, <<0>>, <<20>>}
LiteralQueries ==
    { [name |-> "A", q |-> "repo:org/y is:issue"],
      [name |-> None, q |-> "repo:org/x is:issue is:open (label:bug OR label:help)"] }
LabelLists == { <<>>, <<"bug">>, <<"bug", "help wanted">> }
ExcludeLists == { <<>>, <<"wontfix", "help wanted">> }
RepoLists == SeqsUpTo(Repos, 2)

DocumentsA ==
    { <<>> } \cup
    { << MkDocA(qs, i, m) >> :
        qs \in SeqsUpTo(LiteralQueries, 2), i \in ValuesA, m \in ValuesA }

DocumentsB ==
    { <<>> } \cup
    { << MkDocB(rs, ls, xs, i, m) >> :
        rs \in RepoLists, ls \in LabelLists, xs \in ExcludeLists,
        i \in ValuesB, m \in ValuesB }

\* No override is set and no document holds a number.
NoNumbers ==
    /\ environ.INTERVAL_MIN = None /\ environ.MAX_RESULTS = None
    /\ config_json # <<>> =>
         config_json[1].interval_minutes = <<>> /\ config_json[1].max_results = <<>>
    /\ targets_json # <<>> =>
         targets_json[1].interval_minutes = <<>> /\ targets_json[1].max_results = <<>>

\* No document holds a query, a repository or a label.
NoLists ==
    /\ config_json # <<>> => config_json[1].queries = <<>>
    /\ targets_json # <<>> =>
         /\ targets_json[1].repos = <<>>
         /\ targets_json[1].labels = <<>>
         /\ targets_json[1].exclude_labels = <<>>

\* The process starts: nothing of lines 14-68 has run, and the names that
\* lines 46, 47 and 65 will bind hold 0 and the empty list until then.  The
\* numbers and the lists of the inputs are varied one group at a time.
ImportInit ==
    /\ environ \in [GH_TOKEN : TokenValues, INTERVAL_MIN : IntervalOverrides,
                    MAX_RESULTS : ResultOverrides]
    /\ config_json \in DocumentsA
    /\ targets_json \in DocumentsB
    /\ NoNumbers \/ NoLists
    /\ pc = "env"
    /\ INTERVAL_MIN = 0
    /\ MAX_RESULTS = 0
    /\ ALL_QUERIES = <<>>
    /\ PAGINATE_PAGES = MaxSearchPages
    /\ TIMELINE_MAX_PAGES = MaxTimelinePages
    /\ FILTER_LINKED_PR = "1"
    /\ MAX_TIMELINE_CHECKS = MaxChecksBound
    /\ since = TicksPerSec
    /\ timeline_down = FALSE
    /\ InitMain

main_vars == << knobs, crash, qi, search_vars, query_vars, run_vars,
               filter_vars, out_vars, ref_vars >>

\* Lines 14-20: env("GH_TOKEN", required=True) exits when the variable is
\* unset or empty.
RequireToken ==
    /\ pc = "env"
    /\ pc' = IF environ.GH_TOKEN = None \/ environ.GH_TOKEN = ""
             THEN "exit" ELSE "config"
    /\ UNCHANGED << inputs, resolved, main_vars >>

\* Lines 43-47.
ResolveConfig ==
    /\ pc = "config"
    /\ INTERVAL_MIN' = FirstTruthy(environ.INTERVAL_MIN, cfgA.interval_minutes,
                                   cfgB.interval_minutes, 30)
    /\ MAX_RESULTS' = FirstTruthy(environ.MAX_RESULTS, cfgA.max_results,
                                  cfgB.max_results, 100)
    /\ pc' = "queries"
    /\ UNCHANGED << inputs, ALL_QUERIES, main_vars >>

\* Lines 63-68: the merged list, and sys.exit(1) when it is empty.
ResolveQueries ==
    /\ pc = "queries"
    /\ ALL_QUERIES' = queriesA \o queriesB
    /\ pc' = IF queriesA \o queriesB = <<>> THEN "exit" ELSE "search"
    /\ UNCHANGED << inputs, INTERVAL_MIN, MAX_RESULTS, main_vars >>

ImportNext ==
    \/ RequireToken
    \/ ResolveConfig
    \/ ResolveQueries

ImportSpec == ImportInit /\ [][ImportNext]_vars

\* ------------------------------------------------------------------ properties
\* The places <<name, repository, index>> of the issues held by a report g.
Places(g) ==
    UNION { UNION { { <<n, r, i>> : i \in 1..Len(g[n][r]) } : r \in Repos } :
            n \in QNames }

IssueAt(g, p) == g[p[1]][p[2]][p[3]]

\* The number of issues a report holds.
TotalStored(g) == Cardinality(Places(g))

\* The number of queries of ALL_QUERIES that resolve to the name n.
QueriesNamed(n) ==
    Cardinality({ k \in 1..Len(ALL_QUERIES) : QName(ALL_QUERIES[k]) = n })

\* C1: the number of calls of issue_has_open_linked_pr made in a run never
\* exceeds MAX_TIMELINE_CHECKS.
C1_FilterCallsWithinBudget == filter_calls <= MAX_TIMELINE_CHECKS

\* C1 witness: the budget is used up and, in the same query, more issues
\* were kept than lookups were ever made, so a candidate went unchecked.
C1_Witness ==
    /\ FILTER_LINKED_PR = "1"
    /\ MAX_TIMELINE_CHECKS > 0
    /\ filter_calls = MAX_TIMELINE_CHECKS
    /\ Len(kept_list) > filter_calls

\* C2 as claimed: outside a lookup in progress, timeline_checks equals the
\* number of lookups made so far, whatever they returned.
C2_BudgetEqualsCalls == pc # "timeline" => timeline_checks = filter_calls

\* C3 as claimed: no response of the timeline endpoint makes the lookup
\* raise, so the run is never aborted by it.
C3_FilterNeverRaises == crash # "timeline"

\* C4: when every timeline request fails at the transport level, the report
\* and the per-query URL set are those of the same run with the linked-PR
\* filter off.
C4_FailOpen ==
    timeline_down =>
        /\ grouped_by_query_repo = ref_grouped
        /\ seen_urls_in_this_query = ref_seen
        /\ crash # "timeline"

\* C4 witness: the endpoint is down, lookups were made and each consumed
\* budget, and an issue was kept all the same.
C4_Witness ==
    /\ timeline_down
    /\ filter_calls > 0
    /\ timeline_checks = filter_calls
    /\ pc = "items"
    /\ Len(kept_list) > 0

DistinctUrlsUnder(g, n) ==
    \A p1, p2 \in Places(g) :
        (p1[1] = n /\ p2[1] = n /\ p1 # p2)
            => IssueAt(g, p1).html_url # IssueAt(g, p2).html_url

\* C6 as claimed: under any one query name the report never holds the same
\* URL twice.
C6_DistinctUrlsPerName ==
    \A n \in QNames : DistinctUrlsUnder(grouped_by_query_repo, n)

\* C6 amended: the issues appended by any one query have pairwise distinct,
\* non-empty URLs, which are the URLs recorded for that query; where no
\* lookup discards an issue (none was made, or the timeline endpoint is
\* down), every URL of an item that passed lines 285-298 was kept exactly
\* once; and under a name that a single query of the list resolves to, the
\* report never holds the same URL twice.
C6_DistinctUrlsPerQuery ==
    /\ \A i, j \in 1..Len(kept_list) :
           i # j => kept_list[i].html_url # kept_list[j].html_url
    /\ { kept_list[i].html_url : i \in 1..Len(kept_list) } = seen_urls_in_this_query
    /\ \A u \in seen_urls_in_this_query : Truthy(u)
    /\ kept = Len(kept_list)
    /\ (pc = "items" /\ (filter_calls = 0 \/ timeline_down)) =>
           \A k \in 1..(ii - 1) :
               (PassesBasicFilters(items[k], since) /\ Truthy(items[k].html_url))
                   => Cardinality({ j \in 1..Len(kept_list) :
                          kept_list[j].html_url = items[k].html_url }) = 1
    /\ \A n \in QNames :
           QueriesNamed(n) <= 1 => DistinctUrlsUnder(grouped_by_query_repo, n)

\* C6 witness: a query returned the same URL twice, both occurrences passed
\* every filter, no lookup discarded either, and one issue was kept.
C6_Witness ==
    /\ pc = "items"
    /\ Len(items) = 2
    /\ ii > Len(items)
    /\ items[1].html_url = items[2].html_url
    /\ PassesBasicFilters(items[1], since)
    /\ PassesBasicFilters(items[2], since)
    /\ FILTER_LINKED_PR = "0"
    /\ kept = 1

\* C7 as claimed: once the total is computed it is the number of issues
\* appended to the report.
C7_TotalIsKeptSum ==
    files_written # {} => total = TotalStored(grouped_by_query_repo)

\* A step in which the search of the current query raises and main() moves
\* on: the only step that leaves "search" for the next query.
SearchFailureStep == pc = "search" /\ qi' = qi + 1

\* C8: when the search of a query fails, the run goes on with the next query
\* (or to the report after the last one), and the report, the per-query
\* counts and the budget are what they were before that query.
C8_FailedQueryIsolated ==
    [][SearchFailureStep =>
          /\ pc' = IF qi < Len(ALL_QUERIES) THEN "search" ELSE "report"
          /\ crash' = None
          /\ grouped_by_query_repo' = grouped_by_query_repo
          /\ per_query_counts' = per_query_counts
          /\ timeline_checks' = timeline_checks
          /\ filter_calls' = filter_calls]_vars

\* C8 witness: of two queries with different names the first one failed (it
\* has no count) and the second one kept an issue.
C8_Witness ==
    /\ pc = "report"
    /\ Len(ALL_QUERIES) = 2
    /\ QName(ALL_QUERIES[1]) \notin DOMAIN per_query_counts
    /\ QName(ALL_QUERIES[2]) \in DOMAIN per_query_counts
    /\ TotalStored(grouped_by_query_repo) > 0

C10_DeliveryNeverRaises == crash \notin {"email", "tg"}


\* The import has resolved the interval and the result cap.
ConfigResolved ==
    /\ Truthy(environ.GH_TOKEN)
    /\ pc \in {"queries", "search", "exit"}

\* The value of the first source, in the order override, Document A,
\* Document B, that supplies one (a non-empty override, a non-zero number in
\* a document that exists), else the hard default.
FirstSupplied(override, docA, keyA, docB, keyB, default) ==
    IF Truthy(override) THEN int(override)
    ELSE IF docA # <<>> /\ TruthyNum(keyA) THEN keyA[1]
    ELSE IF docB # <<>> /\ TruthyNum(keyB) THEN keyB[1]
    ELSE default

\* C11: the effective interval and the effective result cap are each the
\* value of the first of run override, Document A, Document B that supplies
\* one, else the hard default 30 / 100; so Document B's value is used when
\* Document A is absent.
C11_PrecedenceOverSources ==
    ConfigResolved =>
        /\ INTERVAL_MIN =
             FirstSupplied(environ.INTERVAL_MIN, config_json,
                           cfgA.interval_minutes, targets_json,
                           cfgB.interval_minutes, 30)
        /\ MAX_RESULTS =
             FirstSupplied(environ.MAX_RESULTS, config_json,
                           cfgA.max_results, targets_json,
                           cfgB.max_results, 100)

\* The literal queries of Document A, the lists of Document B.
LiteralsOfA == IF config_json = <<>> THEN <<>> ELSE config_json[1].queries

TargetsOfB ==
    IF targets_json = <<>> THEN MkDocB(<<>>, <<>>, <<>>, <<>>, <<>>)
    ELSE targets_json[1]

\* all is the list lits followed by one query per repository of b, n of them.
MergedAs(all, lits, b, n) ==
    /\ Len(all) = Len(lits) + n
    /\ \A i \in 1..Len(lits) : all[i] = lits[i]
    /\ \A i \in 1..n :
         all[Len(lits) + i] = SynthQuery(b.repos[i], b.labels, b.exclude_labels)

\* C12 as stated: the resolved query list is Document A's literal queries
\* followed by one synthesized query per repository of Document B, also when
\* the include-label list is empty, and the import exits, with no request
\* made, exactly when the merged list is empty.
C12_OneQueryPerRepository ==
    [][pc = "queries" =>
         /\ MergedAs(ALL_QUERIES', LiteralsOfA, TargetsOfB, Len(TargetsOfB.repos))
         /\ pc' = "exit" <=> ALL_QUERIES' = <<>>
         /\ requests' = <<>> /\ tl_requests' = 0]_vars

\* C12: the resolved query list is Document A's literal queries in their
\* order followed by, when Document B's include-label list is not empty, one
\* synthesized query per repository of Document B in repository order, and
\* by nothing when that list is empty; query resolution exits, with no
\* request made, exactly when the merged list is empty.
C12_MergedQueryList ==
    [][pc = "queries" =>
         /\ MergedAs(ALL_QUERIES', LiteralsOfA, TargetsOfB,
                     IF TargetsOfB.labels = <<>> THEN 0
                     ELSE Len(TargetsOfB.repos))
         /\ pc' = "exit" <=> ALL_QUERIES' = <<>>
         /\ requests' = <<>> /\ tl_requests' = 0]_vars

\* Both documents contribute: two literal queries, then the queries of two
\* repositories with two include labels and excluded labels.
C12_Witness ==
    /\ pc = "search"
    /\ Len(LiteralsOfA) = 2
    /\ Len(TargetsOfB.repos) = 2
    /\ Len(TargetsOfB.labels) = 2
    /\ TargetsOfB.exclude_labels # <<>>
    /\ Len(ALL_QUERIES) = 4
    /\ ALL_QUERIES[3].name = "org/x-bug_help_wanted"
    /\ ALL_QUERIES[3].q =
         "repo:org/x is:issue is:open (label:bug OR label:\"help wanted\") -label:wontfix -label:\"help wanted\""


\* C13: every run writes both report files, whatever the search and
\* timeline endpoints answer, and writes them before any delivery is
\* attempted: a run that has ended, normally or not, or is delivering, has
\* written them.
C13_ReportsWrittenByEveryRun ==
    pc \in {"email", "tg", "done", "crashed"} =>
        files_written = {"notify.html", "notify.txt"}

\* main() is at the issue `it` of the item loop, before line 284 for it.
AtItem == pc = "items" /\ ii <= Len(items)

\* C14: once timeline_checks has reached MAX_TIMELINE_CHECKS no lookup is
\* called again, in this query or a later one, the budget stays exhausted,
\* and an issue that passes the time-window, state and assignee steps and
\* whose URL is new is kept.
C14_ExhaustionIsPermanent ==
    [][timeline_checks >= MAX_TIMELINE_CHECKS =>
         /\ filter_calls' = filter_calls
         /\ pc' # "timeline"
         /\ timeline_checks' = timeline_checks
         /\ ( /\ AtItem
              /\ ~OlderThanWindow(CurItem, since)
              /\ OpenUnassigned(CurItem)
              /\ Truthy(CurItem.html_url)
              /\ CurItem.html_url \notin seen_urls_in_this_query )
            => /\ kept_list' = Append(kept_list, CurItem)
               /\ grouped_by_query_repo'[CurQName][RepoFullName(CurItem.repository_url)]
                    = Append(grouped_by_query_repo[CurQName][RepoFullName(CurItem.repository_url)],
                             CurItem)]_vars

\* The budget ran out in the first query, on a lookup that found a linked
\* pull request, and the only issue of the second query was kept without a
\* lookup.
C14_Witness ==
    /\ FILTER_LINKED_PR = "1"
    /\ MAX_TIMELINE_CHECKS > 0
    /\ timeline_checks >= MAX_TIMELINE_CHECKS
    /\ filter_calls >= 1
    /\ qi = 2
    /\ pc = "items"
    /\ Len(items) = 1
    /\ ii = 2
    /\ kept_list = items
    /\ tl_result = None

\* C15: a lookup is called, and budget consumed, only for an issue that has
\* passed the time-window, state and assignee steps; an issue that fails one
\* of them is skipped with the budget untouched; the lookup is called before
\* the URL is looked up in the seen set, so also for a URL already seen, and
\* the call that ends has consumed budget.
C15_FilterAfterBasicStepsBeforeDedup ==
    [][/\ filter_calls' # filter_calls =>
            /\ AtItem
            /\ ~OlderThanWindow(CurItem, since)
            /\ OpenUnassigned(CurItem)
       /\ (AtItem /\ (OlderThanWindow(CurItem, since) \/ ~OpenUnassigned(CurItem))) =>
            /\ timeline_checks' = timeline_checks
            /\ filter_calls' = filter_calls
            /\ pc' = "items"
            /\ ii' = ii + 1
       /\ ( /\ AtItem
            /\ ~OlderThanWindow(CurItem, since)
            /\ OpenUnassigned(CurItem)
            /\ FILTER_LINKED_PR = "1"
            /\ timeline_checks < MAX_TIMELINE_CHECKS ) =>
            /\ filter_calls' = filter_calls + 1
            /\ pc' = "timeline"
            /\ seen_urls_in_this_query' = seen_urls_in_this_query
            /\ kept_list' = kept_list
       /\ (pc = "timeline" /\ pc' # "timeline") =>
            timeline_checks' > timeline_checks]_vars

\* A lookup is running for an issue whose URL this query has already kept.
C15_Witness ==
    /\ pc = "timeline"
    /\ CurItem.html_url \in seen_urls_in_this_query
    /\ timeline_checks >= 1


\* C16: a lookup requests at most TIMELINE_MAX_PAGES pages, page after page;
\* while it runs it has found no cross-referenced open pull request and,
\* its pages being well-formed, no page shorter than the page size; and a
\* lookup whose pages were all well-formed ends with true exactly when a
\* page it fetched holds a cross-referenced event whose source is a pull
\* request in state open.
C16_LinkedPullRequestScan ==
    /\ tl_requests <= TIMELINE_MAX_PAGES
    /\ pc = "timeline" =>
         /\ tl_page = tl_requests + 1
         /\ ~tl_found
         /\ ~tl_malformed => ~tl_short
    /\ (tl_result # None /\ ~tl_malformed) =>
         /\ tl_result \in {"true", "false"}
         /\ tl_result = "true" <=> tl_found

\* A lookup found the open pull request on its second page, the first one
\* being full and without one.
C16_Witness ==
    /\ tl_result = "true"
    /\ tl_requests = 2
    /\ tl_found
    /\ ~tl_malformed
    /\ ~tl_short


\* a is a subsequence of b: the elements of a occur in b in the same order.
IsSubsequence(a, b) ==
    \E f \in [1..Len(a) -> 1..Len(b)] :
        /\ \A i, j \in 1..Len(a) : i < j => f[i] < f[j]
        /\ \A i \in 1..Len(a) : b[f[i]] = a[i]

\* The issues of lst that belong to the repository r, in their order.
OfRepo(lst, r) ==
    SelectSeq(lst, LAMBDA it : RepoFullName(it.repository_url) = r)

\* The item loop of a query is running.
InItemLoop == pc \in {"items", "timeline"}

\* C17 as stated: the issues stored under the name of the query of the
\* current iteration, for every repository, are a subsequence of the search
\* results of that query.
C17_StoredIsSubsequenceOfResults ==
    InItemLoop =>
        \A r \in Repos :
            IsSubsequence(grouped_by_query_repo[CurQName][r], items)

\* C17: the issues a query keeps are, in order, the items of its search
\* results that the loop left as kept; for every repository, the list stored
\* under the query's name ends with those of them that belong to the
\* repository, and is exactly that list when no earlier query of the run
\* resolves to the same name; an item is skipped exactly when it fails the
\* time-window, state or assignee step, and it is kept exactly when it got
\* past those steps and the lookup, its URL is not empty, and every earlier
\* item of the query with the same URL was skipped or discarded by the
\* lookup.
C17_KeptInSearchOrder ==
    InItemLoop =>
        /\ Len(outcomes) = ii - 1
        /\ \E f \in [1..Len(kept_list) -> 1..(ii - 1)] :
              /\ \A i, j \in 1..Len(kept_list) : i < j => f[i] < f[j]
              /\ \A i \in 1..Len(kept_list) :
                    items[f[i]] = kept_list[i] /\ outcomes[f[i]] = "kept"
              /\ \A k \in 1..(ii - 1) :
                    outcomes[k] = "kept" => \E i \in 1..Len(kept_list) : f[i] = k
        /\ \A r \in Repos :
              LET g == grouped_by_query_repo[CurQName][r]
                  own == OfRepo(kept_list, r)
              IN /\ Len(g) >= Len(own)
                 /\ SubSeq(g, Len(g) - Len(own) + 1, Len(g)) = own
                 /\ (\A j \in 1..(qi - 1) : QName(ALL_QUERIES[j]) # CurQName)
                      => g = own
        /\ \A k \in 1..(ii - 1) :
              /\ outcomes[k] = "skipped" <=>
                    (OlderThanWindow(items[k], since) \/ ~OpenUnassigned(items[k]))
              /\ outcomes[k] = "kept" <=>
                    /\ outcomes[k] \notin {"skipped", "linked"}
                    /\ Truthy(items[k].html_url)
                    /\ \A e \in 1..(k - 1) :
                          items[e].html_url = items[k].html_url
                              => outcomes[e] \in {"skipped", "linked"}

\* A query has kept, in the order of its results, two issues of the same
\* repository.
C17_Witness ==
    /\ pc = "items"
    /\ Len(items) = 2
    /\ ii = 3
    /\ kept_list = items
    /\ RepoFullName(items[1].repository_url) = RepoFullName(items[2].repository_url)
    /\ grouped_by_query_repo[CurQName][RepoFullName(items[1].repository_url)] = items


\* The lower bound sent to the search endpoint (since_iso, lines 266 and
\* 77), as an instant.
ServerLowerBound == strptime(iso_utc(since))

\* C18: an open, unassigned issue whose update timestamp is missing,
\* unparsable, or at or after the lower bound sent to the search endpoint is
\* not discarded by the time-window step, whatever the sub-second fraction
\* of the run's start time.
C18_RecheckAgreesWithServerWindow ==
    InItemLoop =>
        \A k \in 1..(ii - 1) :
            ( /\ OpenUnassigned(items[k])
              /\ \/ ~Truthy(items[k].updated_at)
                 \/ strptime(items[k].updated_at) = -1
                 \/ strptime(items[k].updated_at) >= ServerLowerBound )
            => outcomes[k] # "skipped"

\* C19: once the report is written, total is positive exactly when the
\* report holds an issue; so are HAS_RESULTS and TOTAL of the run-status
\* signal when it is written; and delivery is attempted exactly when the
\* report holds an issue.
C19_SignalAgreesWithReport ==
    files_written # {} =>
        /\ total > 0 <=> TotalStored(grouped_by_query_repo) > 0
        /\ status_signal # NoSignal =>
             /\ status_signal.HAS_RESULTS = "true"
                  <=> TotalStored(grouped_by_query_repo) > 0
             /\ status_signal.TOTAL > 0
                  <=> TotalStored(grouped_by_query_repo) > 0
        /\ pc \in {"email", "tg"} => TotalStored(grouped_by_query_repo) > 0
        /\ (pc = "done" /\ mail_ok = None /\ tg_ok = None)
             => TotalStored(grouped_by_query_repo) = 0

====
